---- MODULE Spec2Model ----
(***************************************************************************)
(* A model of bevy-snake (src/src/main.rs): the game state machine, the    *)
(* snake, the food spawner and the per-frame system schedule.              *)
(*                                                                         *)
(* One frame of the Update stage is a sequence of passes.  In the first    *)
(* pass game_control_input runs together with the on_update systems of the *)
(* current state; systems without an ordering constraint run in any order. *)
(* Commands (spawn, despawn, insert_resource) are queued and applied at    *)
(* the end of the pass; a queued state change is carried out by the state  *)
(* driver in the same frame (exit pass, then the update pass of the new    *)
(* state).                                                                 *)
(***************************************************************************)
EXTENDS Integers, Sequences, FiniteSets, TLC

VARIABLES
    app_state,            \* State<AppState>: the current state
    scheduled,            \* State<AppState>: the queued state change (Option)
    transition,           \* State<AppState>: the transition in progress
    panicked,             \* an unwrap() failed: the process is gone
    heads,                \* the entities with SnakeHead (0 or 1), with their components
    foods,                \* the positions of the entities with Food, in spawn order
    snake_movement_timer, \* SnakeMovementConfig.timer: elapsed ms
    food_spawner_timer,   \* FoodSpawnerConfig.timer: elapsed ms
    commands,             \* the commands queued in the running pass
    space_pressed,        \* Space was held in the previous frame
    in_frame,             \* a frame is being run
    todo,                 \* the systems of the running pass that have not run yet
    delta,                \* Time::delta() of the running frame, in ms
    ticks,                \* the moves the snake has made since it was spawned
    tick_tail,            \* history: where the last segment was before the latest shift
    probe                 \* inputs and result of one call of get_next_head_pos

vars == <<app_state, scheduled, transition, panicked, heads, foods,
          snake_movement_timer, food_spawner_timer, commands,
          space_pressed, in_frame, todo, delta, ticks, tick_tail, probe>>

game_vars == <<app_state, scheduled, transition, panicked, heads, foods,
               snake_movement_timer, food_spawner_timer, commands,
               space_pressed, in_frame, todo, delta, ticks, tick_tail>>

----------------------------------------------------------------------------
(* Program constants *)

ARENA_WIDTH == 15
ARENA_HEIGHT == 15
FOOD_SPAWN_PERIOD_MS == 1500
SNAKE_MOVEMENT_PERIOD_MS == 250

(* Bounds of the model *)

\* a snake that has been steered makes at most this many moves
MaxTicks == 3
\* at most this many direction keys are held at once
MaxKeysDown == 2
\* the segment lists drawn for a single call of get_next_head_pos
MaxProbeSegments == 2
\* the frame times drawn for Time::delta(), in ms
Deltas == {0, 250, 1500}
\* the values the random number generator is seen to return
RngSamples == {3, 4, 15}

----------------------------------------------------------------------------
(* Types of the program *)

AppState == {"Starting", "Running", "Paused", "Ended"}

Direction == {"Up", "Down", "Left", "Right"}

opposite(self) ==
    CASE self = "Up" -> "Down"
      [] self = "Down" -> "Up"
      [] self = "Left" -> "Right"
      [] self = "Right" -> "Left"

Position(x, y) == [x |-> x, y |-> y]

None == << >>
Some(v) == <<v>>
is_some(o) == o # << >>
is_none(o) == o = << >>
unwrap(o) == o[1]

----------------------------------------------------------------------------
(* Pure functions *)

\* get_next_head_pos with the upper bounds compared with > instead of >=
get_next_head_pos_off_by_one(head_pos, direction, segments) ==
    LET next_head_pos ==
            CASE direction = "Left" -> [x |-> head_pos.x - 1, y |-> head_pos.y]
              [] direction = "Right" -> [x |-> head_pos.x + 1, y |-> head_pos.y]
              [] direction = "Up" -> [x |-> head_pos.x, y |-> head_pos.y + 1]
              [] direction = "Down" -> [x |-> head_pos.x, y |-> head_pos.y - 1]
    IN  IF \/ next_head_pos.x < 0
           \/ next_head_pos.y < 0
           \/ next_head_pos.x > ARENA_WIDTH
           \/ next_head_pos.y > ARENA_HEIGHT
        THEN << >>
        ELSE IF \E i \in DOMAIN segments : next_head_pos = segments[i]
             THEN << >>
             ELSE <<next_head_pos>>

\* get_next_head_pos: the head displaced by one cell, or None on a collision
\* with the arena's border or with a segment of the body
get_next_head_pos(head_pos, direction, segments) ==
    LET next_head_pos ==
            CASE direction = "Left" -> Position(head_pos.x - 1, head_pos.y)
              [] direction = "Right" -> Position(head_pos.x + 1, head_pos.y)
              [] direction = "Up" -> Position(head_pos.x, head_pos.y + 1)
              [] direction = "Down" -> Position(head_pos.x, head_pos.y - 1)
    IN  IF \/ next_head_pos.x < 0
           \/ next_head_pos.y < 0
           \/ next_head_pos.x >= ARENA_WIDTH
           \/ next_head_pos.y >= ARENA_HEIGHT
        THEN None
        ELSE IF \E i \in DOMAIN segments : next_head_pos = segments[i]
             THEN None
             ELSE Some(next_head_pos)

\* Timer::tick of a repeating timer, then Timer::finished
timer_tick(elapsed, duration, dt) ==
    LET e == elapsed + dt
    IN  IF e >= duration
        THEN [elapsed |-> e % duration, finished |-> TRUE]
        ELSE [elapsed |-> e, finished |-> FALSE]

\* the direction snake_head_movement_input reads from the held keys
pressed_direction(keys) ==
    LET pressed(k) == \E i \in DOMAIN keys : keys[i] = k
    IN  IF pressed("Left") THEN Some("Left")
        ELSE IF pressed("Right") THEN Some("Right")
        ELSE IF pressed("Up") THEN Some("Up")
        ELSE IF pressed("Down") THEN Some("Down")
        ELSE None

\* shift_body with front_pos not replaced by the segment's old position
RECURSIVE shift_body_front_kept(_, _, _)
shift_body_front_kept(body, i, front_pos) ==
    IF i > Len(body)
    THEN [body |-> body, front_pos |-> front_pos]
    ELSE shift_body_front_kept([body EXCEPT ![i] = front_pos], i + 1, front_pos)

\* the loop of snake_movement over body.0: every segment takes the position
\* of the one ahead of it; front_pos ends as the position the tail left
RECURSIVE shift_body(_, _, _)
shift_body(body, i, front_pos) ==
    IF i > Len(body)
    THEN [body |-> body, front_pos |-> front_pos]
    ELSE shift_body([body EXCEPT ![i] = front_pos], i + 1, body[i])

\* gen_range over the inclusive range low..=high
gen_range_inclusive(low, high) == {v \in RngSamples : low <= v /\ v <= high}

\* the values rng.gen_range(low..high) is seen to return
gen_range(low, high) == {v \in RngSamples : low <= v /\ v < high}

\* the positions of the entities with SnakeSegment and Position: head and body
segment_positions(hs) ==
    IF hs = << >> THEN << >> ELSE <<hs[1].pos>> \o hs[1].body

\* eating_commands with the new segment placed on the head's cell
RECURSIVE eating_commands_at_head(_, _, _)
eating_commands_at_head(head, fs, i) ==
    IF i > Len(fs) THEN << >>
    ELSE (IF head.pos = fs[i]
          THEN << <<"despawn_food", fs[i]>>, <<"spawn_segment", head.pos>> >>
          ELSE << >>) \o eating_commands_at_head(head, fs, i + 1)

\* the body of the first loop of snake_eating_and_growth, over the foods
RECURSIVE eating_commands(_, _, _)
eating_commands(head, fs, i) ==
    IF i > Len(fs) THEN << >>
    ELSE (IF head.pos = fs[i]
          THEN << <<"despawn_food", fs[i]>>, <<"spawn_segment", head.last_tail_pos>> >>
          ELSE << >>) \o eating_commands(head, fs, i + 1)

\* reset_commands without the loop over the foods
reset_commands_keep_food(fs, i) == << >>

\* game_reset: one despawn for every food and one for every segment
RECURSIVE reset_commands(_, _)
reset_commands(fs, i) ==
    IF i > Len(fs) THEN << >>
    ELSE << <<"despawn_food", fs[i]>> >> \o reset_commands(fs, i + 1)

\* the snake spawn_snake creates
new_snake ==
    [pos |-> Position(3, 3),
     direction |-> "Up",
     input_direction |-> None,
     body |-> << Position(3, 2) >>,
     last_tail_pos |-> Position(3, 2)]

\* removes the first food at pos
RECURSIVE despawn_food(_, _)
despawn_food(fs, pos) ==
    IF fs = << >> THEN << >>
    ELSE IF Head(fs) = pos THEN Tail(fs)
    ELSE <<Head(fs)>> \o despawn_food(Tail(fs), pos)

\* one queued command applied to the world
apply_command(w, c) ==
    CASE c[1] = "spawn_snake" ->
            [w EXCEPT !.heads = Append(w.heads, new_snake)]
      [] c[1] = "spawn_segment" ->
            IF w.heads = << >> THEN w
            ELSE [w EXCEPT !.heads[1].body = Append(w.heads[1].body, c[2])]
      [] c[1] = "despawn_segments" -> [w EXCEPT !.heads = << >>]
      [] c[1] = "spawn_food" -> [w EXCEPT !.foods = Append(w.foods, c[2])]
      [] c[1] = "despawn_food" -> [w EXCEPT !.foods = despawn_food(w.foods, c[2])]
      [] c[1] = "insert_snake_movement_config" -> [w EXCEPT !.snake_movement_timer = 0]
      [] c[1] = "insert_food_spawner_config" -> [w EXCEPT !.food_spawner_timer = 0]

\* the queued commands applied in order, at the end of a pass
RECURSIVE apply_commands(_, _)
apply_commands(w, cs) ==
    IF cs = << >> THEN w
    ELSE apply_commands(apply_command(w, Head(cs)), Tail(cs))

----------------------------------------------------------------------------
(* The schedule built in main *)

\* on_update with food_spawner added without its state gate
on_update_spawner_ungated(state) ==
    CASE state = "Starting" -> {"spawn_snake", "start_food_spawner"}
      [] state = "Running" -> {"snake_movement", "snake_eating_and_growth",
                               "snake_head_movement_input", "food_spawner"}
      [] OTHER -> {"food_spawner"}

\* on_update with snake_head_movement_input added without its state gate
on_update_input_ungated(state) ==
    CASE state = "Starting" -> {"spawn_snake", "start_food_spawner"}
      [] state = "Running" -> {"snake_movement", "snake_eating_and_growth",
                               "snake_head_movement_input", "food_spawner"}
      [] OTHER -> {"snake_head_movement_input"}

\* on_update with spawn_snake left out of the set of Starting
on_update_no_spawn_snake(state) ==
    CASE state = "Starting" -> {"start_food_spawner"}
      [] state = "Running" -> {"snake_movement", "snake_eating_and_growth",
                               "snake_head_movement_input", "food_spawner"}
      [] OTHER -> {}

\* the systems added with SystemSet::on_update(state)
on_update(state) ==
    CASE state = "Starting" -> {"spawn_snake", "start_food_spawner"}
      [] state = "Running" -> {"snake_movement", "snake_eating_and_growth",
                               "snake_head_movement_input", "food_spawner"}
      [] OTHER -> {}

\* the systems added with SystemSet::on_exit(state)
on_exit(state) == IF state = "Ended" THEN {"game_reset"} ELSE {}

\* runs_after without the .after(snake_movement) of snake_eating_and_growth
runs_after_eating_unordered(system) ==
    CASE system = "snake_movement" -> {"snake_head_movement_input"}
      [] OTHER -> {}

\* the systems a system is ordered after (.before and .after in main)
runs_after(system) ==
    CASE system = "snake_movement" -> {"snake_head_movement_input"}
      [] system = "snake_eating_and_growth" -> {"snake_movement"}
      [] OTHER -> {}

\* the system is part of the running pass, has not run, and no system it is
\* ordered after is still to run
ready(system) ==
    /\ in_frame
    /\ ~panicked
    /\ system \in todo
    /\ runs_after(system) \cap todo = {}

\* State::set: refused when the state is the current one or a change is queued
set_ok(state) == app_state # state /\ scheduled = None

\* app_state.set(state).unwrap()
set_unwrap(state) ==
    IF set_ok(state)
    THEN scheduled' = Some(state) /\ panicked' = panicked
    ELSE scheduled' = scheduled /\ panicked' = TRUE

\* the direction keys that may be held in one frame, oldest press first
KeySeqs ==
    {ks \in UNION {[1..n -> Direction] : n \in 0..MaxKeysDown} :
        \A i, j \in DOMAIN ks : i # j => ks[i] # ks[j]}

----------------------------------------------------------------------------
(* The state after App::new()...add_state(AppState::Starting) *)

NoProbe == [head_pos |-> Position(0, 0), direction |-> "Up", segments |-> << >>,
            result |-> None, done |-> FALSE]

GameInit ==
    /\ app_state = "Starting"
    /\ scheduled = None
    /\ transition = <<"PreStartup">>
    /\ panicked = FALSE
    /\ heads = << >>
    /\ foods = << >>
    /\ snake_movement_timer = 0
    /\ food_spawner_timer = 0
    /\ commands = << >>
    /\ space_pressed = FALSE
    /\ in_frame = FALSE
    /\ todo = {}
    /\ delta = 0
    /\ ticks = 0
    /\ tick_tail = Position(3, 2)

Init == GameInit /\ probe = NoProbe

----------------------------------------------------------------------------
(* One frame *)

\* the Update stage starts: the first pass runs game_control_input and, when
\* no transition is in progress, the on_update systems of the current state
BeginFrame ==
    /\ ~in_frame
    /\ ~panicked
    /\ in_frame' = TRUE
    /\ \E dt \in Deltas : delta' = dt
    /\ todo' = {"game_control_input"}
                \cup (IF transition = << >> THEN on_update(app_state) ELSE {})
    /\ UNCHANGED <<app_state, scheduled, transition, panicked, heads, foods,
                   snake_movement_timer, food_spawner_timer, commands,
                   space_pressed, ticks, tick_tail, probe>>

\* control_target with a restart that skips Starting
control_target_skip_starting(state) ==
    CASE state = "Running" -> <<"Paused">>
      [] state = "Paused" -> <<"Running">>
      [] state = "Ended" -> <<"Running">>
      [] state = "Starting" -> << >>

\* the match of game_control_input: the state a press of Space asks for
control_target(state) ==
    CASE state = "Running" -> Some("Paused")
      [] state = "Paused" -> Some("Running")
      [] state = "Ended" -> Some("Starting")
      [] state = "Starting" -> None

GameControlInput ==
    /\ ready("game_control_input")
    /\ todo' = todo \ {"game_control_input"}
    /\ \E space \in BOOLEAN :
        LET just_pressed == space /\ ~space_pressed
        IN  /\ space_pressed' = space
            /\ IF just_pressed /\ is_some(control_target(app_state))
               THEN set_unwrap(unwrap(control_target(app_state)))
               ELSE UNCHANGED <<scheduled, panicked>>
    /\ UNCHANGED <<app_state, transition, heads, foods, snake_movement_timer,
                   food_spawner_timer, commands, in_frame,
                   delta, ticks, tick_tail, probe>>

\* input_direction_update without the test against the opposite direction
input_direction_update_any(head, dir) ==
    IF is_some(dir)
    THEN [head EXCEPT !.input_direction = dir]
    ELSE head

\* the two nested ifs of snake_head_movement_input: the direction read from
\* the keys becomes the pending one unless it is the opposite of the committed
input_direction_update(head, dir) ==
    IF is_some(dir)
    THEN IF unwrap(dir) # opposite(head.direction)
         THEN [head EXCEPT !.input_direction = dir]
         ELSE head
    ELSE head

\* the keys are read here; a read that changes the pending direction is
\* explored only while the snake is within MaxTicks moves
SnakeHeadMovementInput ==
    /\ ready("snake_head_movement_input")
    /\ todo' = todo \ {"snake_head_movement_input"}
    /\ \E dir \in {pressed_direction(keys) : keys \in KeySeqs} :
        /\ heads' = [i \in DOMAIN heads |-> input_direction_update(heads[i], dir)]
        /\ heads' # heads => ticks <= MaxTicks
    /\ UNCHANGED <<app_state, scheduled, transition, panicked, foods,
                   snake_movement_timer, food_spawner_timer, commands,
                   space_pressed, in_frame, delta, ticks, tick_tail, probe>>

\* the head after the first statement of the loop of snake_movement
commit_direction(head) ==
    IF is_some(head.input_direction)
    THEN [head EXCEPT !.direction = unwrap(head.input_direction)]
    ELSE head

\* collided with the body shifted before the collision is looked at
collided_after_shift(head) ==
    LET s == shift_body(head.body, 1, head.pos)
    IN  [head EXCEPT !.body = s.body, !.last_tail_pos = s.front_pos]

\* collided with the pending direction taken out of the head
collided_input_taken(head) == [head EXCEPT !.input_direction = << >>]

\* the head after a tick of snake_movement that collides: the function
\* returns before anything but the direction is written
collided(head) == head

\* moved with the head's old position recorded as the vacated cell
moved_front_recorded(head, next_head_pos) ==
    LET s == shift_body(head.body, 1, head.pos)
    IN  [head EXCEPT !.body = s.body,
                     !.last_tail_pos = head.pos,
                     !.pos = next_head_pos]

\* the head after the shift of snake_movement, next_head_pos being free
moved(head, next_head_pos) ==
    LET s == shift_body(head.body, 1, head.pos)
    IN  [head EXCEPT !.body = s.body,
                     !.last_tail_pos = s.front_pos,
                     !.pos = next_head_pos]

\* a move of a snake that has been steered is explored only up to MaxTicks
\* moves; a snake that was never steered runs on to the wall
SnakeMovement ==
    /\ ready("snake_movement")
    /\ todo' = todo \ {"snake_movement"}
    /\ LET t == timer_tick(snake_movement_timer, SNAKE_MOVEMENT_PERIOD_MS, delta)
       IN  /\ snake_movement_timer' = t.elapsed
           /\ IF ~t.finished \/ heads = << >>
              THEN UNCHANGED <<heads, scheduled, panicked, ticks, tick_tail>>
              ELSE LET head == commit_direction(heads[1])
                       next_head_pos ==
                           get_next_head_pos(head.pos, head.direction, head.body)
                   IN  IF is_none(next_head_pos)
                       THEN /\ heads' = <<collided(head)>>
                            /\ set_unwrap("Ended")
                            /\ UNCHANGED <<ticks, tick_tail>>
                       ELSE /\ is_none(head.input_direction) \/ ticks < MaxTicks
                            /\ heads' = <<moved(head, unwrap(next_head_pos))>>
                            /\ ticks' = ticks + 1
                            /\ tick_tail' = IF head.body = << >> THEN head.pos
                                            ELSE head.body[Len(head.body)]
                            /\ UNCHANGED <<scheduled, panicked>>
    /\ UNCHANGED <<app_state, transition, foods, food_spawner_timer, commands,
                   space_pressed, in_frame, delta, probe>>

SnakeEatingAndGrowth ==
    /\ ready("snake_eating_and_growth")
    /\ todo' = todo \ {"snake_eating_and_growth"}
    /\ commands' = commands \o
            (IF heads = << >> THEN << >> ELSE eating_commands(heads[1], foods, 1))
    /\ UNCHANGED <<app_state, scheduled, transition, panicked, heads, foods,
                   snake_movement_timer, food_spawner_timer, space_pressed, in_frame, delta, ticks, tick_tail, probe>>

\* no entity with SnakeSegment is at pos
vacant(pos, segments) == \A i \in DOMAIN segments : pos # segments[i]

FoodSpawner ==
    /\ ready("food_spawner")
    /\ todo' = todo \ {"food_spawner"}
    /\ LET t == timer_tick(food_spawner_timer, FOOD_SPAWN_PERIOD_MS, delta)
       IN  /\ food_spawner_timer' = t.elapsed
           /\ IF t.finished /\ foods = << >>
              THEN \E x \in gen_range(0, ARENA_WIDTH), y \in gen_range(0, ARENA_HEIGHT) :
                      LET pos == Position(x, y)
                      IN  IF vacant(pos, segment_positions(heads))
                          THEN commands' = Append(commands, <<"spawn_food", pos>>)
                          ELSE commands' = commands
              ELSE commands' = commands
    /\ UNCHANGED <<app_state, scheduled, transition, panicked, heads, foods,
                   snake_movement_timer, space_pressed, in_frame,
                   delta, ticks, tick_tail, probe>>

SpawnSnake ==
    /\ ready("spawn_snake")
    /\ todo' = todo \ {"spawn_snake"}
    /\ commands' = commands \o
            << <<"spawn_snake">>, <<"insert_snake_movement_config">> >>
    /\ set_unwrap("Running")
    /\ ticks' = 0
    /\ tick_tail' = new_snake.last_tail_pos
    /\ UNCHANGED <<app_state, transition, heads, foods, snake_movement_timer,
                   food_spawner_timer, space_pressed, in_frame,
                   delta, probe>>

StartFoodSpawner ==
    /\ ready("start_food_spawner")
    /\ todo' = todo \ {"start_food_spawner"}
    /\ commands' = Append(commands, <<"insert_food_spawner_config">>)
    /\ UNCHANGED <<app_state, scheduled, transition, panicked, heads, foods,
                   snake_movement_timer, food_spawner_timer, space_pressed, in_frame, delta, ticks, tick_tail, probe>>

GameReset ==
    /\ ready("game_reset")
    /\ todo' = todo \ {"game_reset"}
    /\ commands' = commands \o reset_commands(foods, 1)
            \o (IF heads = << >> THEN << >> ELSE << <<"despawn_segments">> >>)
    /\ UNCHANGED <<app_state, scheduled, transition, panicked, heads, foods,
                   snake_movement_timer, food_spawner_timer, space_pressed, in_frame, delta, ticks, tick_tail, probe>>

\* the world the commands act on
world ==
    [heads |-> heads, foods |-> foods,
     snake_movement_timer |-> snake_movement_timer,
     food_spawner_timer |-> food_spawner_timer]

\* the end of a pass: the queued commands are applied, then the state driver
\* starts the next pass or ends the frame
EndPass ==
    /\ in_frame
    /\ ~panicked
    /\ todo = {}
    /\ LET w == apply_commands(world, commands)
       IN  /\ heads' = w.heads
           /\ foods' = w.foods
           /\ snake_movement_timer' = w.snake_movement_timer
           /\ food_spawner_timer' = w.food_spawner_timer
    /\ commands' = << >>
    /\ CASE transition = <<"PreStartup">> ->
                \* Startup and Entering run no system: on to the update pass
                /\ transition' = << >>
                /\ todo' = on_update(app_state)
                /\ UNCHANGED <<app_state, scheduled, in_frame, delta>>
         [] transition # << >> /\ transition[1] = "ExitingFull" ->
                \* the exit pass is over: the new state is entered and updated
                /\ app_state' = transition[3]
                /\ transition' = << >>
                /\ todo' = on_update(transition[3])
                /\ UNCHANGED <<scheduled, in_frame, delta>>
         [] transition = << >> /\ is_some(scheduled) ->
                \* a queued change: the exit pass of the current state
                /\ transition' = <<"ExitingFull", app_state, unwrap(scheduled)>>
                /\ scheduled' = None
                /\ todo' = on_exit(app_state)
                /\ UNCHANGED <<app_state, in_frame, delta>>
         [] transition = << >> /\ is_none(scheduled) ->
                \* nothing queued: the frame is over
                /\ in_frame' = FALSE
                /\ delta' = 0
                /\ todo' = {}
                /\ UNCHANGED <<app_state, scheduled, transition>>
    /\ UNCHANGED <<panicked, space_pressed, ticks, tick_tail, probe>>

Next ==
    \/ BeginFrame
    \/ GameControlInput
    \/ SnakeHeadMovementInput
    \/ SnakeMovement
    \/ SnakeEatingAndGrowth
    \/ FoodSpawner
    \/ SpawnSnake
    \/ StartFoodSpawner
    \/ GameReset
    \/ EndPass

Spec == Init /\ [][Next]_vars

\* App::run keeps running frames and a stage runs every system of a pass:
\* a step that can be taken is taken in the end
FairSpec == Init /\ [][Next]_vars /\ WF_vars(Next)

----------------------------------------------------------------------------
(* Single calls of get_next_head_pos, on inputs drawn from the arena *)

\* the cells of the arena
Arena == {Position(x, y) : x \in 0..(ARENA_WIDTH - 1), y \in 0..(ARENA_HEIGHT - 1)}

\* the cells next to p, and the centre of the arena
ProbeCells(p) ==
    {c \in Arena : \/ (c.x = p.x /\ (c.y = p.y + 1 \/ c.y = p.y - 1))
                   \/ (c.y = p.y /\ (c.x = p.x + 1 \/ c.x = p.x - 1))
                   \/ (c.x = 7 /\ c.y = 7 /\ c # p)}

ProbeInit ==
    /\ GameInit
    /\ \E p \in Arena, d \in Direction :
         \E segments \in UNION {[1..n -> ProbeCells(p)] : n \in 0..MaxProbeSegments} :
            probe = [head_pos |-> p, direction |-> d, segments |-> segments,
                     result |-> None, done |-> FALSE]

ProbeCall ==
    /\ ~probe.done
    /\ probe' = [probe EXCEPT
                    !.result = get_next_head_pos(probe.head_pos, probe.direction,
                                                 probe.segments),
                    !.done = TRUE]
    /\ UNCHANGED game_vars

ProbeSpec == ProbeInit /\ [][ProbeCall]_vars

----------------------------------------------------------------------------
(* Single runs of the loop body of snake_head_movement_input, on the keys   *)
(* held in one frame and a head with any committed and pending direction   *)

InputProbeInit ==
    /\ GameInit
    /\ \E keys \in KeySeqs, d \in Direction,
          input \in {None} \cup {Some(i) : i \in Direction} :
            probe = [keys |-> keys,
                     head |-> [new_snake EXCEPT !.direction = d,
                                                !.input_direction = input],
                     result |-> None, done |-> FALSE]

InputProbeCall ==
    /\ ~probe.done
    /\ probe' = [probe EXCEPT
                    !.result = Some(input_direction_update(
                                        probe.head, pressed_direction(probe.keys))),
                    !.done = TRUE]
    /\ UNCHANGED game_vars

InputProbeSpec == InputProbeInit /\ [][InputProbeCall]_vars

----------------------------------------------------------------------------
(* Properties *)

\* p displaced by one cell in direction d
Displaced(p, d) ==
    [x |-> p.x + (IF d = "Right" THEN 1 ELSE IF d = "Left" THEN -1 ELSE 0),
     y |-> p.y + (IF d = "Up" THEN 1 ELSE IF d = "Down" THEN -1 ELSE 0)]

\* the cells of a sequence of positions
Cells(positions) == {positions[i] : i \in DOMAIN positions}

\* C1: for a head p in the arena, a direction d and body cells B,
\* get_next_head_pos(p, d, B) is None exactly when p displaced by one cell in
\* direction d is outside the arena or in B, and otherwise is that cell.
C1_NextHeadPos ==
    probe.done =>
        LET q == Displaced(probe.head_pos, probe.direction)
            collision == q \notin Arena \/ q \in Cells(probe.segments)
        IN  /\ (probe.result = << >>) <=> collision
            /\ ~collision => probe.result = <<q>>

\* a call that collides with a body segment inside the arena
C1_Witness ==
    /\ probe.done
    /\ probe.result = << >>
    /\ Displaced(probe.head_pos, probe.direction) \in Arena
    /\ Displaced(probe.head_pos, probe.direction) \in Cells(probe.segments)

\* C2: no step changes the committed direction of the snake to its opposite,
\* and an input that is the opposite of the committed direction changes
\* neither the pending nor the committed direction.
C2_NoReversal ==
    [][\A i \in (DOMAIN heads) \cap (DOMAIN heads') :
          /\ heads'[i].direction # opposite(heads[i].direction)
          /\ input_direction_update(heads[i], <<opposite(heads[i].direction)>>)
                = heads[i]]_vars

\* the snake has turned twice and now runs against its first direction
C2_Witness ==
    /\ heads # << >>
    /\ heads[1].direction = "Down"
    /\ heads[1].input_direction = <<"Down">>

\* C3: in every state the positions of the head and of the body segments are
\* pairwise distinct.
C3_Distinct ==
    LET positions == segment_positions(heads)
    IN  \A i, j \in DOMAIN positions : i # j => positions[i] # positions[j]

\* a snake that has grown twice and moved since
C3_Witness ==
    /\ heads # << >>
    /\ Len(heads[1].body) = 3
    /\ ticks = 3

\* C4: there is never more than one food, and a food that food_spawner
\* creates does not share its cell with the head or a body segment.
C4_FoodOnFreeCell ==
    [][/\ Len(foods') <= 1
       /\ Len(foods') > Len(foods) =>
             foods'[Len(foods')] \notin Cells(segment_positions(heads'))]_vars

\* the step runs the named system
Runs(system) == system \in todo /\ system \notin todo'

\* the changes of state the game allows
Transitions ==
    { <<"Starting", "Running">>, <<"Running", "Paused">>, <<"Paused", "Running">>,
      <<"Running", "Ended">>, <<"Ended", "Starting">> }

\* the head's next cell, in the direction it has after the step, is outside
\* the arena or on a body segment
NextCellBlocked ==
    /\ heads # << >>
    /\ heads' # << >>
    /\ LET q == Displaced(heads[1].pos, heads'[1].direction)
       IN  q \notin Arena \/ q \in Cells(heads[1].body)

\* C5: the state changes only along Starting -> Running (asked for by
\* spawn_snake), Running -> Paused, Paused -> Running and Ended -> Starting
\* (asked for by game_control_input on a press of Space) and Running -> Ended
\* (asked for by snake_movement on a tick that collides).
C5_Transitions ==
    [][/\ app_state' # app_state =>
            /\ <<app_state, app_state'>> \in Transitions
            /\ transition = <<"ExitingFull", app_state, app_state'>>
       /\ (scheduled' # scheduled /\ scheduled' # << >>) =>
            /\ <<app_state, scheduled'[1]>> \in Transitions
            /\ scheduled'[1] = "Running" /\ app_state = "Starting" => Runs("spawn_snake")
            /\ scheduled'[1] = "Ended" => Runs("snake_movement") /\ NextCellBlocked
            /\ scheduled'[1] \in {"Paused", "Starting"}
                  \/ (scheduled'[1] = "Running" /\ app_state = "Paused") =>
                  /\ Runs("game_control_input")
                  /\ space_pressed' /\ ~space_pressed]_vars

\* a game was lost and restarted: Starting is entered a second time
C5_Witness ==
    /\ app_state = "Starting"
    /\ ticks > 0
    /\ todo = {"spawn_snake", "start_food_spawner"}

\* C6: a tick that collides ends the game by the change Running -> Ended and
\* no set(..).unwrap() ever fails, whatever the order game_control_input and
\* snake_movement run in.
C6_NoPanic == ~panicked

\* C7: Ended is asked for only by a movement tick whose next head cell is
\* blocked, Ended is entered only from Running, and a tick whose next head
\* cell is blocked leaves the head, the body segments, the recorded tail
\* position and the food where they were.
C7_CollisionTick ==
    [][/\ (scheduled' = <<"Ended">> /\ scheduled # <<"Ended">>) =>
            Runs("snake_movement") /\ NextCellBlocked
       /\ (app_state' = "Ended" /\ app_state # "Ended") =>
            app_state = "Running" /\ transition = <<"ExitingFull", "Running", "Ended">>
       /\ (/\ Runs("snake_movement")
           /\ snake_movement_timer + delta >= SNAKE_MOVEMENT_PERIOD_MS
           /\ NextCellBlocked) =>
            /\ heads'[1].pos = heads[1].pos
            /\ heads'[1].body = heads[1].body
            /\ heads'[1].last_tail_pos = heads[1].last_tail_pos
            /\ foods' = foods
            /\ commands' = commands]_vars

\* the game has ended on a self-collision: the blocked cell is in the arena
C7_Witness ==
    /\ app_state = "Ended"
    /\ heads # << >>
    /\ Displaced(heads[1].pos, heads[1].direction) \in Arena
    /\ Displaced(heads[1].pos, heads[1].direction) \in Cells(heads[1].body)

\* the end of a pass that ran the on_update systems of Running
RunningPassEnd ==
    /\ in_frame
    /\ ~panicked
    /\ todo = {}
    /\ app_state = "Running"
    /\ transition = << >>

\* C8: a movement tick leaves the number of segments as it is; whenever the
\* number of segments changes, the snake has moved, exactly one segment is
\* added behind the others, a food is gone, and the new segment is where the
\* last segment was before the shift of the latest tick.
C8_Growth ==
    [][(heads # << >> /\ heads' # << >>) =>
          /\ Runs("snake_movement") => Len(heads'[1].body) = Len(heads[1].body)
          /\ Len(heads'[1].body) # Len(heads[1].body) =>
                /\ ticks >= 1
                /\ heads'[1].body = Append(heads[1].body, tick_tail)
                /\ Len(foods') = Len(foods) - 1]_vars

\* the snake has moved onto a food and grown by one segment
C8_Witness ==
    /\ heads # << >>
    /\ ticks = 2
    /\ Len(heads[1].body) = 2
    /\ heads[1].body[2] = tick_tail
    /\ foods = << >>

\* C9: when a pass of Running ends with a food on the head's cell, the end
\* of the pass removes the food and adds exactly one segment; the body never
\* grows in a step that removes no food, so a food is eaten at most once.
C9_Eating ==
    [][(heads # << >> /\ heads' # << >>) =>
          /\ (RunningPassEnd /\ heads[1].pos \in Cells(foods)) =>
                /\ foods' = << >>
                /\ Len(heads'[1].body) = Len(heads[1].body) + 1
          /\ Len(heads'[1].body) > Len(heads[1].body) =>
                /\ Len(heads'[1].body) = Len(heads[1].body) + 1
                /\ Len(foods) = 1
                /\ foods' = << >>
                /\ foods[1] = heads[1].pos]_vars

\* the first food is eaten: a frame whose tick moved the two-segment snake
\* onto the food, after the eating check and before the commands are applied
C9_Witness ==
    /\ RunningPassEnd
    /\ delta > 0
    /\ scheduled = << >>
    /\ heads # << >>
    /\ Len(heads[1].body) = 1
    /\ foods = <<heads[1].pos>>
    /\ commands = << <<"despawn_food", heads[1].pos>>,
                     <<"spawn_segment", heads[1].last_tail_pos>> >>

\* C10: while the state is Paused the head, the segments, the food, the
\* committed and the pending direction and the two timers do not change and
\* no command is queued; the state is left only for Running, and a change is
\* asked for only by game_control_input on a press of Space.
C10_Paused ==
    [][app_state = "Paused" =>
          /\ UNCHANGED <<heads, foods, snake_movement_timer, food_spawner_timer,
                         commands, ticks>>
          /\ app_state' \in {"Paused", "Running"}
          /\ scheduled' # scheduled =>
                \/ /\ scheduled' = <<"Running">>
                   /\ Runs("game_control_input")
                   /\ space_pressed' /\ ~space_pressed
                \/ /\ scheduled = <<"Running">>
                   /\ scheduled' = << >>
                   /\ transition' = <<"ExitingFull", "Paused", "Running">>]_vars

\* a long frame goes by while the game is paused with a food on the board
C10_Witness ==
    /\ app_state = "Paused"
    /\ in_frame
    /\ todo = {}
    /\ delta = 1500
    /\ scheduled = << >>
    /\ transition = << >>
    /\ foods # << >>
    /\ food_spawner_timer > 0

\* C11: leaving Ended (which happens only towards Starting) removes every
\* food and every segment; while the state is Starting there is no food and
\* no snake but the one spawn_snake creates; and Running is entered from
\* Starting with no food and exactly the head at (3,3) facing Up with no
\* pending direction and one body segment at (3,2).
C11_Restart ==
    [][/\ (app_state = "Ended" /\ app_state' # "Ended") =>
            /\ app_state' = "Starting"
            /\ heads' = << >>
            /\ foods' = << >>
       /\ app_state' = "Starting" =>
            /\ foods' = << >>
            /\ heads' = << >> \/ (heads = << >> /\ Len(heads') = 1)
       /\ (app_state = "Starting" /\ app_state' # "Starting") =>
            /\ app_state' = "Running"
            /\ foods' = << >>
            /\ Len(heads') = 1
            /\ heads'[1].pos = [x |-> 3, y |-> 3]
            /\ heads'[1].body = << [x |-> 3, y |-> 2] >>
            /\ heads'[1].direction = "Up"
            /\ heads'[1].input_direction = << >>]_vars

\* a game with a grown snake and a food on the board has ended, Space was
\* pressed and game_reset has queued the removal of the food and the snake
C11_Witness ==
    /\ app_state = "Ended"
    /\ transition = <<"ExitingFull", "Ended", "Starting">>
    /\ todo = {}
    /\ heads # << >>
    /\ Len(heads[1].body) = 2
    /\ Len(foods) = 1
    /\ commands = << <<"despawn_food", foods[1]>>, <<"despawn_segments">> >>

\* the snake has never been steered and has eaten no food
Unsteered ==
    /\ heads # << >>
    /\ heads[1].input_direction = << >>
    /\ Len(heads[1].body) = 1

\* the step runs snake_movement and its timer finishes
MovementTick ==
    /\ Runs("snake_movement")
    /\ snake_movement_timer + delta >= SNAKE_MOVEMENT_PERIOD_MS

\* C12: a snake that was never steered and has eaten nothing is, after n
\* ticks, at (3,3+n) facing Up with its second segment at (3,2+n); a tick
\* from below (3,14) moves it one cell up and asks for no change of state; a
\* tick at (3,14) leaves it in place and asks for Ended, and the change asked
\* for is carried out; and when the state becomes Ended the head of such a
\* snake is at (3,14).
C12_StraightRun ==
    [][Unsteered =>
          /\ heads[1].pos = [x |-> 3, y |-> 3 + ticks]
          /\ heads[1].body = << [x |-> 3, y |-> 2 + ticks] >>
          /\ heads[1].direction = "Up"
          /\ (MovementTick /\ heads[1].pos.y < 14) =>
                /\ heads'[1].pos = [x |-> 3, y |-> heads[1].pos.y + 1]
                /\ heads'[1].body = << heads[1].pos >>
                /\ ticks' = ticks + 1
                /\ UNCHANGED <<scheduled, panicked>>
          /\ (MovementTick /\ heads[1].pos.y = 14) =>
                /\ heads' = heads
                /\ scheduled' = <<"Ended">>
                /\ ~panicked'
          /\ scheduled = <<"Ended">> => ~panicked'
          /\ (app_state' = "Ended" /\ app_state # "Ended") =>
                /\ heads[1].pos = [x |-> 3, y |-> 14]
                /\ ticks = 11]_vars

\* the key of keys pressed last among those that are not the opposite of
\* direction, if there is one
RECURSIVE MostRecentValid(_, _)
MostRecentValid(keys, direction) ==
    IF keys = << >> THEN << >>
    ELSE IF keys[Len(keys)] # opposite(direction) THEN <<keys[Len(keys)]>>
    ELSE MostRecentValid(SubSeq(keys, 1, Len(keys) - 1), direction)

\* C13: after snake_head_movement_input has read the held keys, the pending
\* direction is the key pressed most recently among those that are not the
\* opposite of the committed direction, and is left as it was when there is
\* no such key.
C13_LastWins ==
    probe.done =>
        LET valid == MostRecentValid(probe.keys, probe.head.direction)
            after == probe.result[1]
        IN  /\ after.direction = probe.head.direction
            /\ after.input_direction =
                    IF valid # << >> THEN valid ELSE probe.head.input_direction

\* the state is Running with the snake spawn_snake creates and no food
RunningFresh ==
    /\ app_state = "Running"
    /\ foods = << >>
    /\ heads = << [pos |-> [x |-> 3, y |-> 3],
                   direction |-> "Up",
                   input_direction |-> << >>,
                   body |-> << [x |-> 3, y |-> 2] >>,
                   last_tail_pos |-> [x |-> 3, y |-> 2]] >>

\* C14: whenever the state is Starting, the game comes to Running with a
\* freshly spawned snake, whatever the player does; and a run of
\* game_control_input while the state is Starting, with Space pressed or
\* not, neither queues nor makes a change of state.
C14_Starting ==
    /\ (app_state = "Starting") ~> RunningFresh
    /\ [][(app_state = "Starting" /\ Runs("game_control_input")) =>
            UNCHANGED <<app_state, scheduled, transition, panicked>>]_vars

\* Space was pressed in the first frame, game_control_input has run, and
\* nothing is queued: the state is still Starting
C14_Witness ==
    /\ app_state = "Starting"
    /\ in_frame
    /\ space_pressed
    /\ transition = <<"PreStartup">>
    /\ todo = {}
    /\ scheduled = << >>
    /\ heads = << >>

\* C15: a movement tick that collides leaves the head as it was, the
\* committed and the pending direction included.
C15_NoMutation ==
    [][(MovementTick /\ NextCellBlocked) => heads' = heads]_vars

\* C15, amended: a movement tick that collides leaves the position of the
\* head, the body, the recorded tail position and the pending direction as
\* they were, and the committed direction becomes the pending one when there
\* is one.
C15_CollisionCommits ==
    [][(MovementTick /\ NextCellBlocked) =>
          /\ heads'[1].pos = heads[1].pos
          /\ heads'[1].body = heads[1].body
          /\ heads'[1].last_tail_pos = heads[1].last_tail_pos
          /\ heads'[1].input_direction = heads[1].input_direction
          /\ heads'[1].direction =
                IF heads[1].input_direction # << >>
                THEN heads[1].input_direction[1]
                ELSE heads[1].direction]_vars

\* a tick has collided and asked for Ended, and the committed direction is
\* not the one of the last move: the colliding tick has committed it
C15_Witness ==
    /\ heads # << >>
    /\ scheduled = <<"Ended">>
    /\ ~panicked
    /\ heads[1].input_direction = <<heads[1].direction>>
    /\ heads[1].pos # Displaced(heads[1].body[1], heads[1].direction)

\* C16: on a movement tick whose next head cell is free, the head moves to
\* that cell, the first body segment takes the cell the head was on, every
\* other body segment takes the cell the segment ahead of it was on, the
\* number of segments stays, and the recorded tail position becomes the cell
\* the last segment was on.
C16_RigidShift ==
    [][(MovementTick /\ heads # << >> /\ ~NextCellBlocked) =>
          LET old == heads[1]
              new == heads'[1]
          IN  /\ new.pos = Displaced(old.pos, new.direction)
              /\ Len(new.body) = Len(old.body)
              /\ \A i \in DOMAIN old.body :
                    new.body[i] = IF i = 1 THEN old.pos ELSE old.body[i - 1]
              /\ new.last_tail_pos = old.body[Len(old.body)]]_vars

\* the third tick has shifted a snake of four segments: the cell its last
\* segment left is recorded and is no longer part of the snake
C16_Witness ==
    /\ heads # << >>
    /\ Len(heads[1].body) = 3
    /\ ticks = 3
    /\ in_frame
    /\ "snake_movement" \notin todo
    /\ "snake_eating_and_growth" \in todo
    /\ heads[1].last_tail_pos = tick_tail
    /\ tick_tail \notin Cells(segment_positions(heads))

\* C17: in every pass the systems of Running run in the order
\* snake_head_movement_input, snake_movement, snake_eating_and_growth,
\* food_spawner: none of them runs while one that comes before it in this
\* order is still to run, so that food_spawner reads the positions the
\* movement of the frame has left.
C17_FixedOrder ==
    [][/\ Runs("snake_movement") => "snake_head_movement_input" \notin todo
       /\ Runs("snake_eating_and_growth") =>
            {"snake_head_movement_input", "snake_movement"} \cap todo = {}
       /\ Runs("food_spawner") =>
            {"snake_head_movement_input", "snake_movement",
             "snake_eating_and_growth"} \cap todo = {}]_vars

\* C18: a run of game_control_input that finds Space newly pressed in
\* Running, Paused or Ended asks for the one change of state of that state,
\* and the change asked for is carried out; a run that finds Space still
\* held, or not held, asks for nothing.
C18_EdgeTriggered ==
    [][/\ Runs("game_control_input") =>
            IF space_pressed' /\ ~space_pressed /\ app_state # "Starting"
            THEN /\ scheduled' = control_target(app_state)
                 /\ ~panicked'
            ELSE UNCHANGED <<scheduled, panicked>>
       /\ (scheduled # << >> /\ scheduled # <<"Ended">>) => ~panicked']_vars

\* C19: in every state the position of the head, of every body segment and
\* of every food and the recorded tail position have x in 0..ARENA_WIDTH-1
\* and y in 0..ARENA_HEIGHT-1.
C19_InArena ==
    LET inside(p) == /\ 0 <= p.x /\ p.x < ARENA_WIDTH
                     /\ 0 <= p.y /\ p.y < ARENA_HEIGHT
    IN  /\ \A i \in DOMAIN heads :
              /\ inside(heads[i].pos)
              /\ inside(heads[i].last_tail_pos)
              /\ \A j \in DOMAIN heads[i].body : inside(heads[i].body[j])
        /\ \A i \in DOMAIN foods : inside(foods[i])

\* the head is on the topmost row, a tick has just found the wall ahead, and
\* a food lies on the board
C19_Witness ==
    /\ heads # << >>
    /\ heads[1].pos.y = ARENA_HEIGHT - 1
    /\ heads[1].direction = "Up"
    /\ scheduled = <<"Ended">>
    /\ foods # << >>

\* C20: while the state is Ended the snake, the food and the two timers do
\* not change as long as the state stays Ended, and no food is queued for
\* spawning; the state is left only for Starting, and that change is asked
\* for only by game_control_input on a new press of Space.
C20_Ended ==
    [][app_state = "Ended" =>
          /\ app_state' \in {"Ended", "Starting"}
          /\ ~panicked'
          /\ app_state' = "Ended" =>
                UNCHANGED <<heads, foods, snake_movement_timer,
                            food_spawner_timer, ticks>>
          /\ \A i \in DOMAIN commands' :
                commands'[i][1] \in {"despawn_food", "despawn_segments"}
          /\ commands' # commands =>
                transition = <<"ExitingFull", "Ended", "Starting">>
          /\ scheduled' # scheduled =>
                \/ /\ scheduled' = <<"Starting">>
                   /\ Runs("game_control_input")
                   /\ space_pressed' /\ ~space_pressed
                \/ /\ scheduled = <<"Starting">>
                   /\ scheduled' = << >>
                   /\ transition' = <<"ExitingFull", "Ended", "Starting">>]_vars

\* a long frame begins while the game is over, with a grown snake and no
\* food on the board
C20_Witness ==
    /\ app_state = "Ended"
    /\ in_frame
    /\ todo = {"game_control_input"}
    /\ delta = FOOD_SPAWN_PERIOD_MS
    /\ foods = << >>
    /\ heads # << >>
    /\ Len(heads[1].body) >= 2

====
